---- MODULE Spec2Model ----
(***************************************************************************)
(* Model of the rate-limited counter service of durable-object-counter     *)
(* (src/src/index.ts): the Hono middleware that gates every request        *)
(* through a per-IP Limiter durable object, the three route handlers, and  *)
(* the Counter and Limiter durable objects.                                *)
(*                                                                         *)
(* Each HTTP request is a process (a slot) that walks through the          *)
(* middleware and the route handler.  Every RPC on a durable object is one *)
(* event of that object; between two RPCs of one request the events of     *)
(* other requests may be delivered.  While a Counter method awaits         *)
(* ctx.storage, the object's input gate is closed and no other event is    *)
(* delivered to that object.  Date.now() reads the global clock `now`.     *)
(***************************************************************************)
EXTENDS Integers, Sequences, FiniteSets, TLC

\* ---- program constants (index.ts:84-88) ----
BASE_WAIT_TIME == 500
MAX_WAIT_TIME == 30000
GRACE_PERIOD == 3000

\* ---- bounds of the model ----
MaxTime == 500
MaxHits == 8
MaxVal == 1
LongMaxTime == 50000
TwinMaxTime == 20000
MaxRejects == 3

\* the concurrently in-flight requests
Slots == {1, 2}
\* values of the CF-Connecting-IP header; "" is the missing header
Headers == {"", "1.1.1.1"}
\* values of the :name path parameter
Names == {"x", "y"}
Ops == {"value", "increment", "decrement"}
\* amounts by which the clock advances between two steps
TickSteps == {500}
LongTickSteps == {1000, 5000, 13000, 27000}
TwinTickSteps == {1000, 5000}
\* values an adjusted clock may be set to
SkewTimes == {0, 100, 400, 1000, 6000, 20000}

VARIABLES
  now,              \* the wall clock read by Date.now()
  nextAllowedTime,  \* Limiter field, per limiter object
  consecutiveHits,  \* Limiter field, per limiter object
  stored,           \* Counter storage key "value", per counter object: {} or {v}
  gate,             \* per counter object: the request holding its input gate, 0 if open
  req,              \* the in-flight requests
  net,              \* history: completed increments minus completed decrements, per counter
  hist,             \* history of a limiter since its construction
  chist,            \* history of a counter object
  twin              \* a second copy of one limiter, restarted from zero

vars == <<now, nextAllowedTime, consecutiveHits, stored, gate, req, net, hist, chist, twin>>

Max(a, b) == IF a >= b THEN a ELSE b
Min(a, b) == IF a <= b THEN a ELSE b

\* c.req.header("CF-Connecting-IP") || "global"
IpOf(hdr) == IF hdr = "" THEN "global" ELSE hdr
Ips == {IpOf(h) : h \in Headers}

\* (await this.ctx.storage.get<number>("value")) || 0
StorageGetOrZero(n) ==
  IF stored[n] = {} THEN 0
  ELSE LET v == CHOOSE x \in stored[n] : TRUE IN IF v = 0 THEN 0 ELSE v

\* ---- Limiter ----
\* checkRateLimit without the grace period
checkRateLimitNoGrace(nat, t) ==
  IF t >= nat THEN 0 ELSE Max(0, nat - t)

\* checkRateLimit reporting whole seconds instead of milliseconds
checkRateLimitSeconds(nat, t) ==
  IF t >= nat THEN 0 ELSE Max(0, (nat - t - GRACE_PERIOD) \div 1000)

checkRateLimit(nat, t) ==
  IF t >= nat THEN 0 ELSE Max(0, nat - t - GRACE_PERIOD)

\* waitTime with the exponent consecutiveHits instead of consecutiveHits - 1
waitTimeOffByOne(hits) == Min(BASE_WAIT_TIME * 2 ^ hits, MAX_WAIT_TIME)

\* waitTime without the Math.min cap
waitTimeUncapped(hits) == BASE_WAIT_TIME * 2 ^ (hits - 1)

\* Math.min(BASE_WAIT_TIME * 2 ** (consecutiveHits - 1), MAX_WAIT_TIME)
waitTime(hits) == Min(BASE_WAIT_TIME * 2 ^ (hits - 1), MAX_WAIT_TIME)

\* recordHits whose open branch counts the request itself
recordHitsOpenCountsOne(nat, hits, t) == IF t >= nat THEN 1 ELSE hits + 1

\* recordHits without the reset of the open branch
recordHitsNoReset(nat, hits, t) == hits + 1

recordHits(nat, hits, t) == IF t >= nat THEN 0 ELSE hits + 1

\* recordNextAllowedTime whose penalized branch adds the wait to the old
\* boundary instead of to now
recordNextAllowedTimeFromBoundary(nat, hits, t) ==
  IF t >= nat THEN t + BASE_WAIT_TIME
  ELSE Max(nat, nat + waitTime(hits + 1))

\* recordNextAllowedTime without the Math.max of the penalized branch
recordNextAllowedTimeNoMax(nat, hits, t) ==
  IF t >= nat THEN t + BASE_WAIT_TIME
  ELSE t + waitTime(hits + 1)

recordNextAllowedTime(nat, hits, t) ==
  IF t >= nat THEN t + BASE_WAIT_TIME
  ELSE Max(nat, t + waitTime(hits + 1))

\* a request slot: pc is the position in the middleware and handler; hdr, wait,
\* name, op and value are their locals (cleared once dead); status is the
\* response code; records and cops count the recordRequest and Counter calls made
IdleReq == [pc |-> "idle", hdr |-> "", wait |-> 0, status |-> 0,
            name |-> "", op |-> "", value |-> 0, records |-> 0, cops |-> 0]

\* first: time of the first check, -1 if none; lastRej: <<t, w>> of the last
\* rejected check not followed by a record; lastRec: time of the last record, -1
\* if none; run: number of records in a row that took the penalized branch;
\* sawOpen: the last check, not yet followed by a record, found now >=
\* nextAllowedTime; rejected: number of 429 answers since the last record
NoHist == [first |-> -1, lastRej |-> <<>>, lastRec |-> -1, run |-> 0,
           sawOpen |-> FALSE, rejected |-> 0]

\* evicted: the object was dropped from memory after its last call; lastPut: the
\* value stored by the last completed increment or decrement, 0 if none;
\* incFrom: {v} when the last completed call was an increment that read v;
\* back: {v} when the last two completed calls were an increment that read v
\* and then a decrement
NoCHist == [evicted |-> FALSE, lastPut |-> 0, incFrom |-> {}, back |-> {}]

TwinOff == [on |-> FALSE, nat |-> 0, hits |-> 0, wait |-> 0, origRejected |-> FALSE]

Init ==
  /\ now = 0
  /\ nextAllowedTime = [k \in Ips |-> 0]
  /\ consecutiveHits = [k \in Ips |-> 0]
  /\ stored = [n \in Names |-> {}]
  /\ gate = [n \in Names |-> 0]
  /\ req = [r \in Slots |-> IdleReq]
  /\ net = [n \in Names |-> 0]
  /\ hist = [k \in Ips |-> NoHist]
  /\ chist = [n \in Names |-> NoCHist]
  /\ twin = TwinOff

limVars == <<nextAllowedTime, consecutiveHits>>
ctrVars == <<stored, gate, net, chist>>

\* a request arrives and enters the middleware (index.ts:17-20)
Arrive(r, hdr) ==
  /\ req[r].pc \in {"idle", "done"}
  /\ req' = [req EXCEPT ![r] = [IdleReq EXCEPT !.pc = "mw", !.hdr = hdr]]
  /\ UNCHANGED <<now, limVars, ctrVars, hist, twin>>

\* await limiterStub.checkRateLimit()  (index.ts:22, 100-108)
CheckCore(r) ==
  /\ req[r].pc = "mw"
  /\ req' = [req EXCEPT ![r].pc = "checked",
               ![r].wait = checkRateLimit(nextAllowedTime[IpOf(req[r].hdr)], now)]
  /\ UNCHANGED <<now, limVars, ctrVars>>

\* RejectCore without the return: the rejected request goes on to
\* recordRequest and next()
RejectFallsThrough(r) ==
  LET k == IpOf(req[r].hdr) IN
  /\ req[r].pc = "checked"
  /\ req[r].wait > 0
  /\ consecutiveHits' = [consecutiveHits EXCEPT
         ![k] = recordHits(nextAllowedTime[k], consecutiveHits[k], now)]
  /\ nextAllowedTime' = [nextAllowedTime EXCEPT
         ![k] = recordNextAllowedTime(nextAllowedTime[k], consecutiveHits[k], now)]
  /\ req' = [req EXCEPT ![r].pc = "recorded", ![r].records = @ + 1]
  /\ UNCHANGED <<now, ctrVars>>

\* RejectCore with recordRequest called before the 429 is returned
RejectAlsoRecords(r) ==
  LET k == IpOf(req[r].hdr) IN
  /\ req[r].pc = "checked"
  /\ req[r].wait > 0
  /\ consecutiveHits' = [consecutiveHits EXCEPT
         ![k] = recordHits(nextAllowedTime[k], consecutiveHits[k], now)]
  /\ nextAllowedTime' = [nextAllowedTime EXCEPT
         ![k] = recordNextAllowedTime(nextAllowedTime[k], consecutiveHits[k], now)]
  /\ req' = [req EXCEPT ![r].pc = "done", ![r].status = 429, ![r].hdr = "",
                        ![r].wait = 0, ![r].records = @ + 1]
  /\ UNCHANGED <<now, ctrVars>>

\* if (millisecondsToNextRequest > 0) return c.json({...}, 429)  (index.ts:24-32)
RejectCore(r) ==
  /\ req[r].pc = "checked"
  /\ req[r].wait > 0
  /\ req' = [req EXCEPT ![r].pc = "done", ![r].status = 429, ![r].hdr = "", ![r].wait = 0]
  /\ UNCHANGED <<now, limVars, ctrVars>>

\* RecordCore with the limiter looked up under one fixed name instead of the
\* request's ip
RecordCoreSharedLimiter(r) ==
  LET k == "global" IN
  /\ req[r].pc = "checked"
  /\ req[r].wait = 0
  /\ now < nextAllowedTime[k] => consecutiveHits[k] < MaxHits
  /\ consecutiveHits' = [consecutiveHits EXCEPT
         ![k] = recordHits(nextAllowedTime[k], consecutiveHits[k], now)]
  /\ nextAllowedTime' = [nextAllowedTime EXCEPT
         ![k] = recordNextAllowedTime(nextAllowedTime[k], consecutiveHits[k], now)]
  /\ req' = [req EXCEPT ![r].pc = "recorded", ![r].records = @ + 1, ![r].hdr = ""]
  /\ UNCHANGED <<now, ctrVars>>

\* await limiterStub.recordRequest()  (index.ts:34, 110-124)
RecordCore(r) ==
  LET k == IpOf(req[r].hdr) IN
  /\ req[r].pc = "checked"
  /\ req[r].wait = 0
  /\ now < nextAllowedTime[k] => consecutiveHits[k] < MaxHits
  /\ consecutiveHits' = [consecutiveHits EXCEPT
         ![k] = recordHits(nextAllowedTime[k], consecutiveHits[k], now)]
  /\ nextAllowedTime' = [nextAllowedTime EXCEPT
         ![k] = recordNextAllowedTime(nextAllowedTime[k], consecutiveHits[k], now)]
  /\ req' = [req EXCEPT ![r].pc = "recorded", ![r].records = @ + 1, ![r].hdr = ""]
  /\ UNCHANGED <<now, ctrVars>>

\* the runtime evicts a Limiter object; the next RPC runs the constructor
\* again (index.ts:94-98)
EvictCore(k) ==
  /\ nextAllowedTime[k] # 0 \/ consecutiveHits[k] # 0
  /\ nextAllowedTime' = [nextAllowedTime EXCEPT ![k] = 0]
  /\ consecutiveHits' = [consecutiveHits EXCEPT ![k] = 0]
  /\ UNCHANGED <<now, ctrVars, req>>

Check(r) == CheckCore(r) /\ UNCHANGED <<hist, twin>>
Reject(r) == RejectCore(r) /\ UNCHANGED <<hist, twin>>
Record(r) == RecordCore(r) /\ UNCHANGED <<hist, twin>>
EvictLimiter(k) == EvictCore(k) /\ UNCHANGED <<hist, twin>>

\* the handler run by a next() that is called before recordRequest
GetValueCoreBeforeRecord(r, n) ==
  /\ req[r].pc = "checked"
  /\ req[r].wait = 0
  /\ gate[n] = 0
  /\ req' = [req EXCEPT ![r].pc = "done",
                        ![r].value = StorageGetOrZero(n), ![r].status = 200,
                        ![r].cops = @ + 1]
  /\ UNCHANGED <<now, limVars, stored, gate, net>>

\* getCounterValue that creates the key it did not find
GetValueCoreCreates(r, n) ==
  /\ req[r].pc = "recorded"
  /\ gate[n] = 0
  /\ req' = [req EXCEPT ![r].pc = "done",
                        ![r].value = StorageGetOrZero(n), ![r].status = 200,
                        ![r].cops = @ + 1]
  /\ stored' = [stored EXCEPT ![n] = {StorageGetOrZero(n)}]
  /\ UNCHANGED <<now, limVars, gate, net>>

\* await next(); GET /:name/value -> obj.getCounterValue()  (index.ts:38-44, 63-66)
GetValueCore(r, n) ==
  /\ req[r].pc = "recorded"
  /\ gate[n] = 0
  /\ req' = [req EXCEPT ![r].pc = "done",
                        ![r].value = StorageGetOrZero(n), ![r].status = 200,
                        ![r].cops = @ + 1]
  /\ UNCHANGED <<now, limVars, stored, gate, net>>

GetValue(r, n) == GetValueCore(r, n) /\ UNCHANGED <<hist, chist, twin>>

\* value += amount / value -= amount with amount = 1 (index.ts:70, 77)
incrementValue(v) == v + 1
\* decrement copied from increment with the operator left as it was
decrementValueAdds(v) == v + 1
decrementValue(v) == v - 1

\* MutateGet on a store whose reads do not close the input gate
MutateGetNoGate(r, n, op) ==
  /\ req[r].pc = "recorded"
  /\ op \in {"increment", "decrement"}
  /\ op = "increment" => StorageGetOrZero(n) < MaxVal
  /\ op = "decrement" => StorageGetOrZero(n) > -MaxVal
  /\ gate' = [gate EXCEPT ![n] = r]
  /\ req' = [req EXCEPT ![r].pc = "got", ![r].name = n, ![r].op = op,
                        ![r].value = StorageGetOrZero(n), ![r].cops = @ + 1]
  /\ UNCHANGED <<now, limVars, stored, net>>

\* POST /:name/increment|decrement: the storage.get of increment/decrement
\* (index.ts:46-60, 69, 76); the object's input gate stays closed until the
\* put completes
MutateGetCore(r, n, op) ==
  /\ req[r].pc = "recorded"
  /\ op \in {"increment", "decrement"}
  /\ gate[n] = 0
  /\ op = "increment" => StorageGetOrZero(n) < MaxVal
  /\ op = "decrement" => StorageGetOrZero(n) > -MaxVal
  /\ gate' = [gate EXCEPT ![n] = r]
  /\ req' = [req EXCEPT ![r].pc = "got", ![r].name = n, ![r].op = op,
                        ![r].value = StorageGetOrZero(n), ![r].cops = @ + 1]
  /\ UNCHANGED <<now, limVars, stored, net>>

MutateGet(r, n, op) == MutateGetCore(r, n, op) /\ UNCHANGED <<hist, chist, twin>>

\* storage.put("value", value); return value  (index.ts:71-72, 78-79)
MutatePutCore(r) ==
  LET n == req[r].name
      v == IF req[r].op = "increment" THEN incrementValue(req[r].value)
           ELSE decrementValue(req[r].value) IN
  /\ req[r].pc = "got"
  /\ stored' = [stored EXCEPT ![n] = {v}]
  /\ gate' = [gate EXCEPT ![n] = 0]
  /\ net' = [net EXCEPT ![n] = IF req[r].op = "increment" THEN @ + 1 ELSE @ - 1]
  /\ req' = [req EXCEPT ![r].pc = "done", ![r].value = v, ![r].status = 200,
                        ![r].name = "", ![r].op = ""]
  /\ UNCHANGED <<now, limVars>>

MutatePut(r) == MutatePutCore(r) /\ UNCHANGED <<hist, chist, twin>>

\* time passes
Tick(d, maxT) ==
  /\ now + d <= maxT
  /\ now' = now + d
  /\ UNCHANGED <<limVars, ctrVars, req, hist, twin>>

Next ==
  \/ \E r \in Slots, h \in Headers : Arrive(r, h)
  \/ \E r \in Slots : Check(r)
  \/ \E r \in Slots : Reject(r)
  \/ \E r \in Slots : Record(r)
  \/ \E r \in Slots, n \in Names : GetValue(r, n)
  \/ \E r \in Slots, n \in Names, op \in Ops : MutateGet(r, n, op)
  \/ \E r \in Slots : MutatePut(r)
  \/ \E k \in Ips : EvictLimiter(k)
  \/ \E d \in TickSteps : Tick(d, MaxTime)

Spec == Init /\ [][Next]_vars

\* ---------------------------------------------------------------------
\* One client, one request at a time, over a long time span, with the
\* history of the limiter recorded (specification SpecBackoff)
\* ---------------------------------------------------------------------
Client == CHOOSE r \in Slots : \A q \in Slots : r <= q
ClientHeader == "1.1.1.1"
ClientIp == IpOf(ClientHeader)
ClientName == "x"

CheckH(r) ==
  LET k == IpOf(req[r].hdr) IN
  /\ CheckCore(r)
  /\ hist' = [hist EXCEPT
       ![k].first = IF @ = -1 THEN now ELSE @,
       ![k].lastRej = IF req'[r].wait > 0 THEN <<now, req'[r].wait>> ELSE @,
       ![k].sawOpen = (now >= nextAllowedTime[k])]
  /\ UNCHANGED twin

RecordH(r) ==
  LET k == IpOf(req[r].hdr) IN
  /\ RecordCore(r)
  /\ hist' = [hist EXCEPT
       ![k].lastRej = <<>>,
       ![k].lastRec = now,
       ![k].run = IF now >= nextAllowedTime[k] THEN 0 ELSE @ + 1,
       ![k].sawOpen = FALSE,
       ![k].rejected = 0]
  /\ UNCHANGED twin

EvictH(k) ==
  /\ EvictCore(k)
  /\ hist' = [hist EXCEPT ![k] = NoHist]
  /\ UNCHANGED twin

NextBackoff ==
  \/ Arrive(Client, ClientHeader)
  \/ CheckH(Client)
  \/ Reject(Client)
  \/ RecordH(Client)
  \/ GetValue(Client, ClientName)
  \/ EvictH(ClientIp)
  \/ \E d \in LongTickSteps : Tick(d, LongMaxTime)

SpecBackoff == Init /\ [][NextBackoff]_vars

\* the system clock is adjusted: Date.now() may return less than before
ClockSet(t) ==
  /\ t # now
  /\ now' = t
  /\ UNCHANGED <<limVars, ctrVars, req, hist, twin>>

NextSkew ==
  \/ Arrive(Client, ClientHeader)
  \/ CheckH(Client)
  \/ Reject(Client)
  \/ RecordH(Client)
  \/ GetValue(Client, ClientName)
  \/ EvictH(ClientIp)
  \/ \E t \in SkewTimes : ClockSet(t)

SpecSkew == Init /\ [][NextSkew]_vars

\* ---------------------------------------------------------------------
\* One client, one request at a time, using all three routes, with both
\* kinds of object evicted between requests and the histories of the limiter
\* and of the counters recorded (specification SpecEvict)
\* ---------------------------------------------------------------------
RejectH(r) ==
  LET k == IpOf(req[r].hdr) IN
  /\ RejectCore(r)
  /\ hist[k].rejected < MaxRejects
  /\ hist' = [hist EXCEPT ![k].rejected = @ + 1]
  /\ UNCHANGED twin

GetValueH(r, n) ==
  /\ GetValueCore(r, n)
  /\ chist' = [chist EXCEPT ![n].evicted = FALSE]
  /\ UNCHANGED <<hist, twin>>

MutateGetH(r, n, op) ==
  /\ MutateGetCore(r, n, op)
  /\ chist' = [chist EXCEPT ![n].evicted = FALSE]
  /\ UNCHANGED <<hist, twin>>

MutatePutH(r) ==
  LET n == req[r].name IN
  /\ MutatePutCore(r)
  /\ chist' = [chist EXCEPT
       ![n].lastPut = req'[r].value,
       ![n].incFrom = IF req[r].op = "increment" THEN {req[r].value} ELSE {},
       ![n].back = IF req[r].op = "decrement" THEN chist[n].incFrom ELSE {}]
  /\ UNCHANGED <<hist, twin>>

\* a Counter object kept its value in a field: eviction loses it
EvictCounterLosesValue(n) ==
  /\ gate[n] = 0
  /\ ~chist[n].evicted
  /\ stored' = [stored EXCEPT ![n] = {}]
  /\ chist' = [chist EXCEPT ![n].evicted = TRUE]
  /\ UNCHANGED <<now, limVars, gate, net, req, hist, twin>>

\* the runtime evicts a Counter object between two calls; the class has no
\* fields, its value lives in ctx.storage (index.ts:62-81)
EvictCounter(n) ==
  /\ gate[n] = 0
  /\ ~chist[n].evicted
  /\ chist' = [chist EXCEPT ![n].evicted = TRUE]
  /\ UNCHANGED <<now, limVars, stored, gate, net, req, hist, twin>>

NextEvict ==
  \/ Arrive(Client, ClientHeader)
  \/ CheckH(Client)
  \/ RejectH(Client)
  \/ RecordH(Client)
  \/ \E n \in Names : GetValueH(Client, n)
  \/ \E n \in Names, op \in Ops : MutateGetH(Client, n, op)
  \/ MutatePutH(Client)
  \/ EvictH(ClientIp)
  \/ \E n \in Names : EvictCounter(n)
  \/ \E d \in TickSteps : Tick(d, MaxTime)

SpecEvict == Init /\ [][NextEvict]_vars

\* ---------------------------------------------------------------------
\* Two copies of the client's limiter behind the same gateway, fed the same
\* requests at the same times; at some point between two requests the second
\* copy is constructed anew (specification SpecTwin)
\* ---------------------------------------------------------------------

\* the constructor gone wrong: the restarted copy starts closed
TwinRestartClosed ==
  /\ ~twin.on
  /\ req[Client].pc \in {"idle", "done"}
  /\ twin' = [on |-> TRUE, nat |-> MAX_WAIT_TIME, hits |-> 0, wait |-> 0,
              origRejected |-> FALSE]
  /\ UNCHANGED <<now, limVars, ctrVars, req, hist>>

\* constructor of the restarted copy (index.ts:94-98)
TwinRestart ==
  /\ ~twin.on
  /\ req[Client].pc \in {"idle", "done"}
  /\ twin' = [on |-> TRUE, nat |-> 0, hits |-> 0, wait |-> 0, origRejected |-> FALSE]
  /\ UNCHANGED <<now, limVars, ctrVars, req, hist>>

\* the restarted copy after the gateway's step that follows its check: it
\* records at the current time when its check returned 0 (index.ts:24-34)
TwinAfterCheck ==
  IF twin.wait = 0
  THEN [twin EXCEPT !.hits = recordHits(twin.nat, twin.hits, now),
                    !.nat = recordNextAllowedTime(twin.nat, twin.hits, now)]
  ELSE [twin EXCEPT !.wait = 0]

TwinCanRecord ==
  (twin.on /\ twin.wait = 0 /\ now < twin.nat) => twin.hits < MaxHits

TwinCheck(r) ==
  /\ CheckCore(r)
  /\ twin' = IF twin.on THEN [twin EXCEPT !.wait = checkRateLimit(twin.nat, now)]
             ELSE twin
  /\ UNCHANGED hist

TwinReject(r) ==
  /\ RejectCore(r)
  /\ TwinCanRecord
  /\ twin' = IF twin.on THEN [TwinAfterCheck EXCEPT !.origRejected = TRUE] ELSE twin
  /\ UNCHANGED hist

TwinRecord(r) ==
  /\ RecordCore(r)
  /\ TwinCanRecord
  /\ twin' = IF twin.on THEN TwinAfterCheck ELSE twin
  /\ UNCHANGED hist

NextTwin ==
  \/ Arrive(Client, ClientHeader)
  \/ TwinCheck(Client)
  \/ TwinReject(Client)
  \/ TwinRecord(Client)
  \/ GetValue(Client, ClientName)
  \/ TwinRestart
  \/ \E d \in TwinTickSteps : Tick(d, TwinMaxTime)

SpecTwin == Init /\ [][NextTwin]_vars

\* ---------------------------------------------------------------------
\* Properties of the gateway (specification Spec)
\* ---------------------------------------------------------------------

\* C1: a request whose check returned a wait > 0 is answered 429 and makes no
\* Counter call: it never moves on to recordRequest or a handler, and the step
\* that answers it leaves every counter's stored value as it was.
C1_RejectedNeverReachesCounter ==
  /\ [](\A r \in Slots : req[r].status = 429 => req[r].pc = "done" /\ req[r].cops = 0)
  /\ [][\A r \in Slots :
          (req[r].pc = "checked" /\ req[r].wait > 0) =>
             /\ req'[r].pc \in {"checked", "done"}
             /\ req'[r].pc = "done" => (req'[r].status = 429 /\ stored' = stored)]_vars

\* a request was rejected after some counter had been written
C1_Witness ==
  \E r \in Slots : /\ req[r].pc = "done" /\ req[r].status = 429
                   /\ \E n \in Names : stored[n] # {}

C3_PairsNeverInterleave ==
  \A r, q \in Slots :
     (r # q /\ req[r].pc = "checked" /\ req[q].pc = "checked"
            /\ req[r].wait = 0 /\ req[q].wait = 0)
        => IpOf(req[r].hdr) # IpOf(req[q].hdr)

\* C4: the stored value of every counter equals the number of completed
\* increments minus the number of completed decrements (0 when absent), and
\* the put step of a call returns the value it stores.
C4_NoLostUpdate ==
  /\ [](\A n \in Names : StorageGetOrZero(n) = net[n] /\ (net[n] # 0 => stored[n] # {}))
  /\ [][\A r \in Slots :
          (req[r].pc = "got" /\ req'[r].pc = "done") =>
             stored'[req[r].name] = {req'[r].value}]_vars

\* an increment and a decrement have completed on a counter, and a call on it
\* is suspended at its storage operation while another request waits
C4_Witness ==
  \E r, q \in Slots, n \in Names :
     /\ r # q /\ req[r].pc = "got" /\ req[r].name = n /\ req[q].pc = "recorded"
     /\ stored[n] = {0}

\* the limiter state of the keys other than k, and the stored values of the
\* counters other than n, are the same after the step as before
OtherLimitersKept(k) ==
  \A k2 \in Ips \ {k} : /\ nextAllowedTime'[k2] = nextAllowedTime[k2]
                        /\ consecutiveHits'[k2] = consecutiveHits[k2]
OtherCountersKept(n) == \A n2 \in Names \ {n} : stored'[n2] = stored[n2]

\* C11: a step of a request addressed to limiter key A (its check, record or
\* rejection) leaves the nextAllowedTime and consecutiveHits of every other
\* key and every stored value unchanged; a step of a request on counter A
\* (getValue, increment, decrement) leaves the stored value of every other
\* counter and every limiter unchanged.
C11_KeyIsolation ==
  [][\A r \in Slots :
       LET k == IpOf(req[r].hdr)
           n == req[r].name IN
       /\ (req[r].pc \in {"mw", "checked"} /\ req'[r].pc # req[r].pc)
             => (OtherLimitersKept(k) /\ stored' = stored)
       /\ (req[r].pc = "recorded" /\ req'[r].pc # "recorded")
             => (stored' = stored /\ nextAllowedTime' = nextAllowedTime
                   /\ consecutiveHits' = consecutiveHits)
       /\ (req[r].pc = "got" /\ req'[r].pc # "got")
             => (OtherCountersKept(n) /\ nextAllowedTime' = nextAllowedTime
                   /\ consecutiveHits' = consecutiveHits)]_vars

\* the two limiters and the two counters are in different states, each
\* changed by requests of its own key
C11_Witness ==
  /\ nextAllowedTime["global"] = 500 /\ consecutiveHits["global"] = 0
  /\ nextAllowedTime["1.1.1.1"] = 1000 /\ consecutiveHits["1.1.1.1"] = 2
  /\ stored["x"] = {1} /\ stored["y"] = {-1}

\* C13: getValue on a counter to which no increment or decrement has been
\* applied returns 0, on any counter it returns the stored value, and the
\* getValue step changes no stored value and no limiter state.
C13_GetValueZeroAndPure ==
  [][\A r \in Slots :
       /\ \A n \in Names :
             GetValue(r, n) =>
               /\ stored[n] = {} => req'[r].value = 0
               /\ stored[n] # {} => req'[r].value \in stored[n]
       /\ (req[r].pc = "recorded" /\ req'[r].pc = "done")
             => /\ stored' = stored
                /\ nextAllowedTime' = nextAllowedTime
                /\ consecutiveHits' = consecutiveHits]_vars

\* a getValue has returned 0 while no counter had ever been written
C13_Witness ==
  \E r \in Slots :
     /\ req[r].pc = "done" /\ req[r].status = 200 /\ req[r].cops = 1
     /\ req[r].value = 0
     /\ \A n \in Names : stored[n] = {} /\ net[n] = 0

\* C17: in every request the record comes after a check that returned 0, the
\* one Counter call comes after the record has completed, and the 200
\* response comes after the Counter call; a request whose check did not
\* return 0 makes no Counter call.
C17_CheckRecordCounterResponse ==
  /\ [](\A r \in Slots :
          /\ req[r].cops \in {0, 1}
          /\ req[r].cops = 1 => (req[r].records = 1 /\ req[r].status # 429)
          /\ req[r].status = 200 => (req[r].pc = "done" /\ req[r].cops = 1))
  /\ [][\A r \in Slots :
          /\ req'[r].records > req[r].records
                => (req[r].pc = "checked" /\ req[r].wait = 0 /\ req[r].cops = 0)
          /\ req'[r].cops > req[r].cops
                => (req[r].pc = "recorded" /\ req[r].records = 1 /\ req[r].wait = 0
                      /\ req[r].status = 0)
          /\ (req[r].pc = "checked" /\ req[r].wait > 0)
                => req'[r].cops = 0]_vars

\* an admitted request has gone through check, record and an increment and
\* has been answered with the new value
C17_Witness ==
  \E r \in Slots :
     /\ req[r].pc = "done" /\ req[r].status = 200
     /\ req[r].records = 1 /\ req[r].cops = 1 /\ req[r].value = 1
     /\ \E n \in Names : stored[n] = {1}

\* ---------------------------------------------------------------------
\* Properties of eviction and of the counter's history (specification
\* SpecEvict)
\* ---------------------------------------------------------------------

\* C12: a limiter that has not been called since its construction (new, or
\* evicted) has nextAllowedTime = 0 and consecutiveHits = 0
\* and its next check returns 0; a counter evicted between requests holds the
\* value stored by its last completed increment or decrement (0 if none), and
\* that is what its next getValue returns.
C12_EvictionKeepsDefaultsAndValue ==
  /\ [](\A k \in Ips :
          (hist[k].first = -1 /\ hist[k].lastRec = -1) =>
             /\ nextAllowedTime[k] = 0 /\ consecutiveHits[k] = 0
             /\ checkRateLimit(nextAllowedTime[k], now) = 0)
  /\ [](\A n \in Names :
          chist[n].evicted => StorageGetOrZero(n) = chist[n].lastPut)
  /\ [][\A r \in Slots :
          /\ (req[r].pc = "mw" /\ req'[r].pc = "checked"
                 /\ hist[IpOf(req[r].hdr)].first = -1
                 /\ hist[IpOf(req[r].hdr)].lastRec = -1) => req'[r].wait = 0
          /\ \A n \in Names :
                (GetValueH(r, n) /\ chist[n].evicted)
                   => req'[r].value = chist[n].lastPut]_vars

\* the limiter was evicted after the client's request recorded on it, and a
\* counter was evicted after an increment stored 1
C12_Witness ==
  /\ req[Client].pc = "done" /\ req[Client].records = 1
  /\ nextAllowedTime[ClientIp] = 0
  /\ hist[ClientIp].first = -1 /\ hist[ClientIp].lastRec = -1
  /\ \E n \in Names : chist[n].evicted /\ stored[n] = {1} /\ chist[n].lastPut = 1

\* C14: an increment that finds the value v (0 when absent) stores and returns
\* v + 1; a decrement that follows it with no other increment or decrement of
\* that counter in between stores and returns v, so getValue is v again.
C14_IncrementThenDecrementRestores ==
  /\ [](\A n \in Names :
          /\ \A v \in chist[n].incFrom : stored[n] = {v + 1}
          /\ \A v \in chist[n].back : stored[n] = {v} /\ StorageGetOrZero(n) = v)
  /\ [][\A r \in Slots :
          LET n == req[r].name IN
          (req[r].pc = "got" /\ req'[r].pc = "done") =>
            /\ req[r].op = "increment" =>
                  /\ req'[r].value = StorageGetOrZero(n) + 1
                  /\ stored'[n] = {req'[r].value}
            /\ req[r].op = "decrement" =>
                  \A v \in chist[n].incFrom : req'[r].value = v]_vars

\* the round trip was made from an absent value on one counter and, on the
\* other, from -1 through the intermediate value 0
C14_Witness ==
  \E n, m \in Names :
     /\ chist[n].back = {0} /\ stored[n] = {0} /\ net[n] = 0
     /\ chist[m].back = {-1} /\ stored[m] = {-1}

C5_BurstWithinGraceAdmitted ==
  [][\A r \in Slots :
       LET k == IpOf(req[r].hdr) IN
       (req[r].pc = "mw" /\ req'[r].pc = "checked" /\ hist[k].first # -1
          /\ now <= hist[k].first + GRACE_PERIOD)
         => req'[r].wait = 0]_vars

\* C15: the record of a request takes the open branch (now >= nextAllowedTime)
\* exactly when the check of that request found now >= nextAllowedTime, no
\* other request and no eviction of the limiter coming in between.
C15_RecordBranchMatchesCheck ==
  [][\A r \in Slots :
       LET k == IpOf(req[r].hdr) IN
       (req[r].pc = "checked" /\ req'[r].pc = "recorded" /\ hist[k].first # -1)
         => ((now >= nextAllowedTime[k]) <=> hist[k].sawOpen)]_vars

\* C16: a check changes neither nextAllowedTime nor consecutiveHits and
\* returns 0 if now >= nextAllowedTime, else nextAllowedTime - now - 3000 if
\* that is positive, else 0: never a negative number, and 0 whenever
\* nextAllowedTime - now <= 3000.
C16_CheckReadOnlyAndExact ==
  [][\A r \in Slots :
       LET k == IpOf(req[r].hdr)
           left == nextAllowedTime[k] - now IN
       (req[r].pc = "mw" /\ req'[r].pc = "checked") =>
         /\ nextAllowedTime' = nextAllowedTime
         /\ consecutiveHits' = consecutiveHits
         /\ req'[r].wait >= 0
         /\ left <= 0 => req'[r].wait = 0
         /\ (left > 0 /\ left <= 3000) => req'[r].wait = 0
         /\ left > 3000 => req'[r].wait = left - 3000]_vars

\* a check 100 ms after the first record of a new limiter has returned 0
\* although nextAllowedTime (500) is still ahead
C16_Witness ==
  /\ req[Client].pc = "checked" /\ req[Client].wait = 0
  /\ now = 100
  /\ hist[ClientIp].first = 0 /\ hist[ClientIp].lastRec = 0
  /\ nextAllowedTime[ClientIp] = 500 /\ consecutiveHits[ClientIp] = 0
  /\ ~hist[ClientIp].sawOpen

\* times at and after t on which a retry is tried
RetryTimes(t) == {t, t + 1} \cup {t + d : d \in LongTickSteps}

\* C6: after a check at time t was rejected with wait w > 0 and until the next
\* record of that limiter, a check at any time >= t + w returns 0.
C6_RejectionRecoverable ==
  /\ [](\A k \in Ips :
          hist[k].lastRej # <<>> =>
             \A t \in RetryTimes(hist[k].lastRej[1] + hist[k].lastRej[2]) :
                checkRateLimit(nextAllowedTime[k], t) = 0)
  /\ [][\A r \in Slots :
          LET k == IpOf(req[r].hdr) IN
          (req[r].pc = "mw" /\ req'[r].pc = "checked" /\ hist[k].lastRej # <<>>
             /\ now >= hist[k].lastRej[1] + hist[k].lastRej[2])
            => req'[r].wait = 0]_vars

\* a retry made after the reported wait, while the limiter is still
\* penalized, has been admitted
C6_Witness ==
  /\ req[Client].pc = "checked" /\ req[Client].wait = 0
  /\ hist[ClientIp].lastRej # <<>>
  /\ now >= hist[ClientIp].lastRej[1] + hist[ClientIp].lastRej[2]
  /\ now < nextAllowedTime[ClientIp]

\* C7: whatever Date.now() returns, earlier values or later, no step other
\* than the construction of a new Limiter object lowers nextAllowedTime.
C7_NoRetreat ==
  [][(\E k \in Ips : EvictH(k))
       \/ \A k \in Ips : nextAllowedTime'[k] >= nextAllowedTime[k]]_vars

\* a record was made at a time before that of the first check, and the
\* boundary it found was kept
C7_Witness ==
  /\ hist[ClientIp].lastRec # -1
  /\ hist[ClientIp].lastRec < hist[ClientIp].first
  /\ consecutiveHits[ClientIp] >= 1
  /\ nextAllowedTime[ClientIp] > hist[ClientIp].lastRec + waitTime(consecutiveHits[ClientIp])

\* C8: the wait of the penalized branch is at most MAX_WAIT_TIME for every
\* reachable consecutiveHits, a penalized record moves nextAllowedTime to at
\* most now + MAX_WAIT_TIME unless it was already later, and the wait a check
\* reports is at most 30000 ms.
C8_WaitCapped ==
  /\ [](/\ \A k \in Ips : consecutiveHits[k] >= 1 => waitTime(consecutiveHits[k]) <= MAX_WAIT_TIME
        /\ \A r \in Slots : req[r].wait <= 30000)
  /\ [][\A r \in Slots :
          LET k == IpOf(req[r].hdr) IN
          (req[r].pc = "checked" /\ req'[r].pc = "recorded") =>
             nextAllowedTime'[k] <= Max(nextAllowedTime[k], now + MAX_WAIT_TIME)]_vars

\* the cap was applied (500 * 2^6 = 32000) and the next check reported 27000
C8_Witness ==
  /\ consecutiveHits[ClientIp] = 7
  /\ nextAllowedTime[ClientIp] = hist[ClientIp].lastRec + MAX_WAIT_TIME
  /\ req[Client].pc = "checked" /\ req[Client].wait = 27000

\* the wait of the k-th penalized record in a row: 500, 1000, 2000, ... doubling
\* up to the cap
RECURSIVE ExpectedWait(_)
ExpectedWait(k) ==
  IF k = 1 THEN 500
  ELSE IF ExpectedWait(k - 1) >= 30000 THEN 30000
  ELSE IF 2 * ExpectedWait(k - 1) > 30000 THEN 30000 ELSE 2 * ExpectedWait(k - 1)

\* C9: the k-th record in a row that arrives while penalized sets
\* consecutiveHits = k and moves nextAllowedTime to now + min(500 * 2^(k-1),
\* 30000) unless it was already later (500, 1000, 2000 for k = 1, 2, 3); a
\* record in the open state sets consecutiveHits = 0 and nextAllowedTime =
\* now + 500.
C9_ExponentialBackoff ==
  /\ ExpectedWait(1) = 500 /\ ExpectedWait(2) = 1000 /\ ExpectedWait(3) = 2000
  /\ [][\A r \in Slots :
          LET k == IpOf(req[r].hdr) IN
          (req[r].pc = "checked" /\ req'[r].pc = "recorded") =>
            IF now >= nextAllowedTime[k]
            THEN consecutiveHits'[k] = 0 /\ nextAllowedTime'[k] = now + 500
            ELSE /\ consecutiveHits'[k] = hist[k].run + 1
                 /\ nextAllowedTime'[k] =
                      Max(nextAllowedTime[k], now + ExpectedWait(hist[k].run + 1))]_vars

\* the third penalized record in a row has moved the boundary by 2000
C9_Witness ==
  /\ hist[ClientIp].run = 3 /\ consecutiveHits[ClientIp] = 3
  /\ nextAllowedTime[ClientIp] = hist[ClientIp].lastRec + 2000
  /\ req[Client].pc = "recorded"

\* the first check of the key, its first record and n further records made
\* while penalized all happened at the present time
RapidRecords(k, n) ==
  /\ hist[k].first = now
  /\ hist[k].lastRec = now
  /\ hist[k].run = n

\* C19 as stated: after the first record of a fresh key and two further
\* records made while penalized, all at the same time, nextAllowedTime
\* exceeds now + GRACE_PERIOD and a check reports a wait > 0.
C19_TwoRapidRecordsPositive ==
  \A k \in Ips :
     RapidRecords(k, 2) =>
        /\ nextAllowedTime[k] > now + GRACE_PERIOD
        /\ checkRateLimit(nextAllowedTime[k], now) > 0

\* C19 amended: after the first record of a fresh key and two further records
\* made while penalized, all at the same time, nextAllowedTime is now + 1000
\* and a check returns 0; only after four such records nextAllowedTime is
\* now + 4000, beyond now + GRACE_PERIOD, and the next check reports 1000.
C19_FourRapidRecordsPositive ==
  /\ [](\A k \in Ips :
          /\ RapidRecords(k, 2) =>
                /\ nextAllowedTime[k] = now + 1000
                /\ checkRateLimit(nextAllowedTime[k], now) = 0
          /\ RapidRecords(k, 4) =>
                /\ nextAllowedTime[k] = now + 4000
                /\ nextAllowedTime[k] > now + GRACE_PERIOD
                /\ checkRateLimit(nextAllowedTime[k], now) = 1000)
  /\ [][\A r \in Slots :
          LET k == IpOf(req[r].hdr) IN
          (req[r].pc = "mw" /\ req'[r].pc = "checked") =>
             /\ RapidRecords(k, 2) => req'[r].wait = 0
             /\ RapidRecords(k, 4) => req'[r].wait > 0]_vars

\* the check that follows four rapid penalized records has reported 1000
C19_Witness ==
  /\ RapidRecords(ClientIp, 4)
  /\ consecutiveHits[ClientIp] = 4
  /\ req[Client].pc = "checked" /\ req[Client].wait = 1000

\* C20: with a clock that never goes back, nextAllowedTime - now is at most
\* MAX_WAIT_TIME in every reachable state, so the wait a check reports is at
\* most MAX_WAIT_TIME - GRACE_PERIOD = 27000; a key whose last record is
\* 30000 ms or more ago is open, and its next record sets consecutiveHits
\* to 0.
C20_BoundaryWithinMaxWait ==
  /\ [](/\ \A k \in Ips :
             /\ nextAllowedTime[k] - now <= MAX_WAIT_TIME
             /\ (hist[k].lastRec # -1 /\ now >= hist[k].lastRec + 30000)
                   => now >= nextAllowedTime[k]
        /\ \A r \in Slots : req[r].wait <= MAX_WAIT_TIME - GRACE_PERIOD
        /\ MAX_WAIT_TIME - GRACE_PERIOD = 27000)
  /\ [][\A r \in Slots :
          LET k == IpOf(req[r].hdr) IN
          (/\ req[r].pc = "checked" /\ req'[r].pc = "recorded"
           /\ hist[k].lastRec # -1 /\ now >= hist[k].lastRec + 30000)
             => consecutiveHits'[k] = 0]_vars

\* a key at the cap (seven penalized records, boundary 30000 ms after the
\* last record) is checked exactly 30000 ms after that record and admitted
C20_Witness ==
  /\ consecutiveHits[ClientIp] = 7
  /\ nextAllowedTime[ClientIp] = hist[ClientIp].lastRec + MAX_WAIT_TIME
  /\ now = nextAllowedTime[ClientIp]
  /\ req[Client].pc = "checked" /\ req[Client].wait = 0

\* ---------------------------------------------------------------------
\* Properties of a restart (specification SpecTwin)
\* ---------------------------------------------------------------------

====
